---- MODULE Spec2Model ----
(***************************************************************************)
(* ScholarStream server: the GET /api/scholarships handler of src/index.js *)
(* (search / filter / sort / pagination and the legacy bare-list mode),    *)
(* over a scholarships collection held by the document store.              *)
(*                                                                         *)
(* Text is a sequence of one-character strings, so that parseInt and the   *)
(* $regex match can be computed character by character.  req.query is a    *)
(* function whose domain is the set of parameters present in the query     *)
(* string.                                                                 *)
(***************************************************************************)
EXTENDS Integers, Sequences, FiniteSets, TLC

VARIABLES scholarships, users, applications, reviews, nextId,
          pc, query, relId, found, res, log, w,
          isConnected, handles, cpc

\* the collections of the store
colls == <<scholarships, users, applications, reviews>>

\* the store's generator of document ids (insertedId)
ids == <<nextId>>

\* the request being served by the read handlers: pc is the handler's
\* position, query is req.query, relId is req.params.id, found is the result
\* of the first store call, res is the response, log is the list of store
\* calls the request has issued, each with its outcome
reader == <<pc, query, relId, found, res, log>>

\* the requests being served by the authenticated write routes, one per
\* connection
writers == <<w, ids>>

\* the connection to the store: isConnected is the module's flag, handles
\* tells whether run() has assigned the collection handles, cpc is the
\* position of each caller of connectToDatabase
conn == <<isConnected, handles, cpc>>

vars == <<colls, reader, writers, conn>>

(***************************************************************************)
(* Bounds of the model.                                                    *)
(***************************************************************************)
\* largest number of documents the collection starts with
MaxDocs == 12
\* largest number of parameters one query string carries
MaxParams == 3

(***************************************************************************)
(* Text helpers.                                                           *)
(***************************************************************************)
Digits == {"0", "1", "2", "3", "4", "5", "6", "7", "8", "9"}

DigitVal(c) ==
    CASE c = "0" -> 0 [] c = "1" -> 1 [] c = "2" -> 2 [] c = "3" -> 3
      [] c = "4" -> 4 [] c = "5" -> 5 [] c = "6" -> 6 [] c = "7" -> 7
      [] c = "8" -> 8 [] c = "9" -> 9

\* String.prototype.toLowerCase on the characters the model uses
Lower(c) ==
    CASE c = "A" -> "a" [] c = "B" -> "b" [] c = "C" -> "c" [] c = "E" -> "e"
      [] c = "K" -> "k" [] c = "S" -> "s" [] c = "U" -> "u"
      [] OTHER -> c

\* the texts the handler compares against
T_postDate == <<"p", "o", "s", "t", "D", "a", "t", "e">>
T_applicationFees ==
    <<"a", "p", "p", "l", "i", "c", "a", "t", "i", "o", "n", "F", "e", "e", "s">>
T_asc == <<"a", "s", "c">>
T_desc == <<"d", "e", "s", "c">>
T_full == <<"f", "u", "l", "l">>
T_empty == <<>>

(***************************************************************************)
(* parseInt(text): optional sign, then the longest prefix of decimal       *)
(* digits; NaN when there is none (and for undefined).  The result is a    *)
(* record so that NaN is not compared with an integer.                     *)
(***************************************************************************)
RECURSIVE DigitsValue(_, _)
DigitsValue(t, acc) ==
    IF t = <<>> \/ Head(t) \notin Digits THEN acc
    ELSE DigitsValue(Tail(t), 10 * acc + DigitVal(Head(t)))

NaN == [nan |-> TRUE, val |-> 0]

parseInt(q, name) ==
    IF name \notin DOMAIN q THEN NaN
    ELSE LET t == q[name]
             signed == t # <<>> /\ Head(t) \in {"-", "+"}
             body == IF signed THEN Tail(t) ELSE t
             sign == IF signed /\ Head(t) = "-" THEN -1 ELSE 1
         IN  IF body = <<>> \/ Head(body) \notin Digits THEN NaN
             ELSE [nan |-> FALSE, val |-> sign * DigitsValue(body, 0)]

\* JavaScript `n || d` for a number n: NaN and 0 are falsy
OrDefault(n, d) == IF n.nan \/ n.val = 0 THEN d ELSE n.val

\* JavaScript truthiness of req.query[name]: undefined and '' are falsy
Truthy(q, name) == name \in DOMAIN q /\ q[name] # <<>>

\* destructuring with a default: the default applies to undefined only
Param(q, name, default) == IF name \in DOMAIN q THEN q[name] ELSE default

(***************************************************************************)
(* The scholarships collection.  Doc(i) is the i-th document of a fixed    *)
(* catalogue; the collection starts as its first n documents, in natural   *)
(* (insertion) order.                                                      *)
(***************************************************************************)
Names == << <<"E", "n", "g">>, <<"a", "r", "t">> >>
UniNames == << <<"m", "i", "t">>, <<"B", "e", "n">>, <<"u", ".", "k">> >>
Degrees == << <<"b", "a">>, <<"m", "s">> >>
Countries == << <<"U", "S">>, <<"u", "k">>, <<"A", "U", "S">>, <<>> >>
Categories == << <<"c", "s">>, <<"A", "r", "t">> >>

Doc(i) ==
    [ id                |-> i,
      scholarshipName   |-> Names[(i % 2) + 1],
      universityName    |-> UniNames[(i % 3) + 1],
      degree            |-> Degrees[((i \div 2) % 2) + 1],
      universityCountry |-> Countries[(i % 4) + 1],
      subjectCategory   |-> Categories[IF i % 5 < 2 THEN 1 ELSE 2],
      applicationFees   |-> ((i * 3) % 5) * 50,
      postDate          |-> (i * 5) % 7 ]

(***************************************************************************)
(* The document store, as the handler uses it: find(query), sort, skip,    *)
(* limit, toArray and countDocuments.  A $regex pattern is matched         *)
(* unanchored with option i; of the characters the model uses, "." stands  *)
(* for any character and an unclosed "(" makes the pattern invalid.        *)
(***************************************************************************)
RegexValid(p) == \A i \in 1..Len(p) : p[i] # "("

RegexTest(p, t) ==
    \E i \in 0..(Len(t) - Len(p)) :
        \A j \in 1..Len(p) : p[j] = "." \/ Lower(p[j]) = Lower(t[i + j])

SearchFields == {"scholarshipName", "universityName", "degree"}

DocMatches(d, mq) ==
    /\ "$or" \in DOMAIN mq =>
          \E f \in SearchFields : RegexTest(mq["$or"], d[f])
    /\ \A f \in DOMAIN mq \ {"$or"} : RegexTest(mq[f], d[f])

QueryValid(mq) == \A k \in DOMAIN mq : RegexValid(mq[k])

Find(coll, mq) == SelectSeq(coll, LAMBDA d : DocMatches(d, mq))

\* a sorts strictly before b under the sort specification
Precedes(a, b, so) ==
    IF so.dir = 1 THEN a[so.field] < b[so.field] ELSE a[so.field] > b[so.field]

RECURSIVE InsertSorted(_, _, _)
InsertSorted(sorted, d, so) ==
    IF sorted = <<>> THEN <<d>>
    ELSE IF Precedes(d, Head(sorted), so) THEN <<d>> \o sorted
    ELSE <<Head(sorted)>> \o InsertSorted(Tail(sorted), d, so)

\* cursor.sort: by the one key; documents with equal keys keep natural order
RECURSIVE SortDocs(_, _)
SortDocs(s, so) ==
    IF s = <<>> THEN <<>>
    ELSE InsertSorted(SortDocs(SubSeq(s, 1, Len(s) - 1), so), s[Len(s)], so)

\* cursor.skip(n): the store rejects a negative skip
SkipValid(n) == n >= 0

Skip(s, n) == SubSeq(s, n + 1, Len(s))

\* cursor.limit(n): 0 is no limit; the driver sends a negative limit as its
\* absolute value (single batch)
Limit(s, n) ==
    LET m == IF n < 0 THEN -n ELSE n
    IN  IF m = 0 \/ m >= Len(s) THEN s ELSE SubSeq(s, 1, m)

\* find(mq).sort(so).skip(sk).limit(lim).toArray()
Window(coll, mq, so, sk, lim) == Limit(Skip(SortDocs(Find(coll, mq), so), sk), lim)

CountDocuments(coll, mq) == Len(Find(coll, mq))

(***************************************************************************)
(* GET /api/scholarships: the synchronous part of the handler.             *)
(***************************************************************************)
\* page || limit || search || country || category ||
\* (sortBy && sortBy !== 'postDate') || (sortOrder && sortOrder !== 'desc')
hasQueryParams(q) ==
    LET sortBy == Param(q, "sortBy", T_postDate)
        sortOrder == Param(q, "sortOrder", T_desc)
    IN  \/ Truthy(q, "page")
        \/ Truthy(q, "limit")
        \/ Param(q, "search", T_empty) # <<>>
        \/ Param(q, "country", T_empty) # <<>>
        \/ Param(q, "category", T_empty) # <<>>
        \/ (sortBy # <<>> /\ sortBy # T_postDate)
        \/ (sortOrder # <<>> /\ sortOrder # T_desc)

\* the query object: a key is set only for a truthy (non-empty) text
BuildQuery(q) ==
    LET search == Param(q, "search", T_empty)
        country == Param(q, "country", T_empty)
        category == Param(q, "category", T_empty)
        keys == (IF search # <<>> THEN {"$or"} ELSE {})
                \cup (IF country # <<>> THEN {"universityCountry"} ELSE {})
                \cup (IF category # <<>> THEN {"subjectCategory"} ELSE {})
    IN  [k \in keys |->
            CASE k = "$or" -> search
              [] k = "universityCountry" -> country
              [] k = "subjectCategory" -> category]

\* faulty variants of sortOptions: the direction test inverted; descending
\* only for the literal 'desc'; the fallback branch sorting ascending
sortOptions_Inverted(q) ==
    LET sortBy == Param(q, "sortBy", T_postDate)
        sortOrder == Param(q, "sortOrder", T_desc)
        dir == IF sortOrder = T_asc THEN -1 ELSE 1
    IN  IF sortBy = T_applicationFees
          THEN [field |-> "applicationFees", dir |-> dir]
        ELSE IF sortBy = T_postDate
          THEN [field |-> "postDate", dir |-> dir]
        ELSE [field |-> "postDate", dir |-> -1]

sortOptions_DescOnlyForDesc(q) ==
    LET sortBy == Param(q, "sortBy", T_postDate)
        sortOrder == Param(q, "sortOrder", T_desc)
        dir == IF sortOrder = T_desc THEN -1 ELSE 1
    IN  IF sortBy = T_applicationFees
          THEN [field |-> "applicationFees", dir |-> dir]
        ELSE IF sortBy = T_postDate
          THEN [field |-> "postDate", dir |-> dir]
        ELSE [field |-> "postDate", dir |-> -1]

sortOptions_FallbackAscending(q) ==
    LET sortBy == Param(q, "sortBy", T_postDate)
        sortOrder == Param(q, "sortOrder", T_desc)
        dir == IF sortOrder = T_asc THEN 1 ELSE -1
    IN  IF sortBy = T_applicationFees
          THEN [field |-> "applicationFees", dir |-> dir]
        ELSE IF sortBy = T_postDate
          THEN [field |-> "postDate", dir |-> dir]
        ELSE [field |-> "postDate", dir |-> 1]

sortOptions(q) ==
    LET sortBy == Param(q, "sortBy", T_postDate)
        sortOrder == Param(q, "sortOrder", T_desc)
        dir == IF sortOrder = T_asc THEN 1 ELSE -1
    IN  IF sortBy = T_applicationFees
          THEN [field |-> "applicationFees", dir |-> dir]
        ELSE IF sortBy = T_postDate
          THEN [field |-> "postDate", dir |-> dir]
        ELSE [field |-> "postDate", dir |-> -1]

\* faulty variant of LegacyMode: the format flag is not consulted
LegacyMode_IgnoresFormat(q) == ~hasQueryParams(q)

\* if (!hasQueryParams && format !== 'full') : the bare-list branch
LegacyMode(q) == ~hasQueryParams(q) /\ Param(q, "format", T_empty) # T_full

DefaultPage == 1
DefaultLimit == 10

pageNum(q) == OrDefault(parseInt(q, "page"), DefaultPage)

limitNum(q) == OrDefault(parseInt(q, "limit"), DefaultLimit)

skip(q) == (pageNum(q) - 1) * limitNum(q)

\* Math.ceil(a / b) for b # 0, by integer arithmetic
CeilDiv(a, b) == IF b > 0 THEN -((-a) \div b) ELSE -(a \div (-b))

\* faulty variant of totalPages: the quotient rounded down
totalPages_Floor(total, limit) ==
    IF limit > 0 THEN total \div limit ELSE CeilDiv(total, limit)

totalPages(total, limit) == CeilDiv(total, limit)

hasMore(page, limit, total) == page * limit < total

\* faulty variant of Envelope: total taken from the page (scholarships.length)
Envelope_TotalOfPage(q, items, total) ==
    [ status |-> 200,
      kind |-> "envelope",
      scholarships |-> items,
      pagination |-> [ total |-> Len(items),
                       page |-> pageNum(q),
                       limit |-> limitNum(q),
                       totalPages |-> totalPages(Len(items), limitNum(q)),
                       hasMore |-> hasMore(pageNum(q), limitNum(q), Len(items)) ],
      filters |-> [ search |-> Param(q, "search", T_empty),
                    country |-> Param(q, "country", T_empty),
                    category |-> Param(q, "category", T_empty),
                    sortBy |-> Param(q, "sortBy", T_postDate),
                    sortOrder |-> Param(q, "sortOrder", T_desc) ] ]

Envelope(q, items, total) ==
    [ status |-> 200,
      kind |-> "envelope",
      scholarships |-> items,
      pagination |-> [ total |-> total,
                       page |-> pageNum(q),
                       limit |-> limitNum(q),
                       totalPages |-> totalPages(total, limitNum(q)),
                       hasMore |-> hasMore(pageNum(q), limitNum(q), total) ],
      filters |-> [ search |-> Param(q, "search", T_empty),
                    country |-> Param(q, "country", T_empty),
                    category |-> Param(q, "category", T_empty),
                    sortBy |-> Param(q, "sortBy", T_postDate),
                    sortOrder |-> Param(q, "sortOrder", T_desc) ] ]

BareList(items) == [status |-> 200, kind |-> "list", scholarships |-> items]

\* catch (error): res.status(500).json({ message, error: error.message })
ErrorResponse(msg) ==
    [status |-> 500, kind |-> "error", scholarships |-> <<>>, error |-> msg]

NoResponse == [status |-> 0, kind |-> "none", scholarships |-> <<>>]

NoQuery == [n \in {} |-> <<>>]

(***************************************************************************)
(* The query strings the model sends: at most MaxParams parameters, each   *)
(* with one of the listed values.                                          *)
(***************************************************************************)
ParamNames ==
    {"page", "limit", "search", "country", "category", "sortBy", "sortOrder",
     "format"}

Values(n) ==
    CASE n = "page" -> << <<>>, <<"0">>, <<"2">>, <<"-", "1">>, <<"x">> >>
      [] n = "limit" -> << <<>>, <<"1">>, <<"5">>, <<"-", "5">>, <<"5", "x">> >>
      [] n = "search" -> << <<>>, <<"e", "n">>, <<".">>, <<"(">> >>
      [] n = "country" -> << <<"u", "s">>, <<".">> >>
      [] n = "category" -> << <<"c", "s">> >>
      [] n = "sortBy" -> << <<>>, T_postDate, T_applicationFees, <<"f", "o", "o">> >>
      [] n = "sortOrder" -> << <<>>, T_asc, T_desc, <<"u", "p">> >>
      [] n = "format" -> << T_full, <<"x">> >>

MaxValues == 5

QueryStrings ==
    UNION { { [n \in P |-> Values(n)[ix[n]]] :
                ix \in { jx \in [P -> 1..MaxValues] :
                            \A n \in P : jx[n] <= Len(Values(n)) } } :
            P \in { S \in SUBSET ParamNames : Cardinality(S) <= MaxParams } }

(***************************************************************************)
(* req.params.id: a text that new ObjectId() accepts (valid, with the id   *)
(* it denotes) or one for which it throws.                                 *)
(***************************************************************************)
ObjectId(n) == [valid |-> TRUE, oid |-> n]
MalformedId == [valid |-> FALSE, oid |-> 0]
NoId == [valid |-> FALSE, oid |-> -1]

\* findOne({ _id }): the documents with that id, at most one
ById(coll, id) == SelectSeq(coll, LAMBDA d : d.id = id.oid)

\* a store call is issued; the last call of the log gets its outcome
Issue(l, op) == Append(l, [op |-> op, outcome |-> "pending"])
Settle(l, outcome) == [l EXCEPT ![Len(l)].outcome = outcome]

(***************************************************************************)
(* Users and applications.  A user is [email, role]; an application is a   *)
(* function from its field names to values (feedback is set or not).       *)
(***************************************************************************)
Emails == {"alice", "bob"}
Roles == {"student", "moderator", "admin"}

User(e, r) == [email |-> e, role |-> r]
NoUser == [email |-> "", role |-> ""]

\* usersCollection.findOne({ email }): the first user with that email
FindUser(coll, e) ==
    LET hits == SelectSeq(coll, LAMBDA u : u.email = e)
    IN  IF hits = <<>> THEN NoUser ELSE hits[1]

Application(i) ==
    [ id |-> i,
      userEmail |-> IF i % 2 = 1 THEN "alice" ELSE "bob",
      applicationStatus |-> "pending",
      paymentStatus |-> "unpaid" ]

SeedUsers == <<User("alice", "admin"), User("bob", "student")>>
SeedApplications == <<Application(1), Application(2)>>

(***************************************************************************)
(* Requests of the authenticated write routes.  A request is its route,    *)
(* its Authorization header, its :id and :email parameters and its body (a *)
(* function from the field names present to their values).                 *)
(***************************************************************************)
Merge(doc, set) ==
    [k \in DOMAIN doc \cup DOMAIN set |-> IF k \in DOMAIN set THEN set[k] ELSE doc[k]]

NoBody == [k \in {} |-> ""]

\* Authorization headers: none, another scheme, a Bearer token the identity
\* provider rejects (email ""), a Bearer token it decodes to an email
NoHeader == [scheme |-> "", email |-> ""]
Headers ==
    {NoHeader, [scheme |-> "Basic", email |-> ""], [scheme |-> "Bearer", email |-> ""]}
        \cup {[scheme |-> "Bearer", email |-> e] : e \in Emails}

\* admin.auth().verifyIdToken(token) resolves
TokenAccepted(h) == h.email \in Emails

Request(route, h, id, email, body) ==
    [route |-> route, header |-> h, id |-> id, email |-> email, body |-> body]

NoRequest == Request("", NoHeader, NoId, "", NoBody)

Reply(n) == [status |-> n]
NoReply == Reply(0)

Writers == {"w1", "w2"}

\* handler is the handler the router dispatched to, user is req.user.email,
\* dbUser is what the gate's findOne returned, seen is what the handler's
\* own findOne returned
IdleWriter ==
    [ pc |-> "idle", req |-> NoRequest, handler |-> "", user |-> "",
      dbUser |-> NoUser, seen |-> <<>>, res |-> NoReply ]

WritersIdle ==
    /\ w = [s \in Writers |-> IdleWriter]
    /\ nextId = MaxDocs + 1

(***************************************************************************)
(* Reviews.                                                                *)
(***************************************************************************)
Review(i, scholarshipId, userEmail) ==
    [ id |-> i,
      scholarshipId |-> scholarshipId,
      userEmail |-> userEmail,
      ratingPoint |-> 4,
      reviewComment |-> "good" ]

SeedReviews == <<Review(1, "s1", "bob")>>

(***************************************************************************)
(* The connection.  The callers of connectToDatabase are the module itself *)
(* (start-up) and the requests passing the ensure-connected middleware.    *)
(***************************************************************************)
Requesters == {"r1", "r2", "r3"}
Callers == {"startup"} \cup Requesters

\* start-up has connected and assigned the handles; no request is waiting
Connected ==
    /\ isConnected = TRUE
    /\ handles = TRUE
    /\ cpc = [c \in Callers |-> IF c = "startup" THEN "done" ELSE "idle"]

(***************************************************************************)
(* State machine.  pc is the handler's position: "idle" (no request),      *)
(* "legacyFind" (awaiting find().sort().toArray() of the bare-list         *)
(* branch), "pageFind" (awaiting the windowed find), "count" (awaiting     *)
(* countDocuments), "done" (response sent).                                *)
(***************************************************************************)
ReaderIdle ==
    /\ pc = "idle"
    /\ query = NoQuery
    /\ relId = NoId
    /\ found = <<>>
    /\ res = NoResponse
    /\ log = <<>>

Init ==
    /\ \E n \in 0..MaxDocs : scholarships = [i \in 1..n |-> Doc(i)]
    /\ users = SeedUsers
    /\ applications = SeedApplications
    /\ reviews = SeedReviews
    /\ ReaderIdle
    /\ WritersIdle
    /\ Connected

\* the request arrives; the handler runs up to its first await
ReceiveOf(queries) ==
    /\ pc = "idle"
    /\ \E q \in queries :
          /\ query' = q
          /\ pc' = IF LegacyMode(q) THEN "legacyFind" ELSE "pageFind"
    /\ log' = Issue(log, "find")
    /\ UNCHANGED <<conn, colls, relId, found, res, writers>>

Receive == ReceiveOf(QueryStrings)

\* legacy branch: find(query).sort(sortOptions).toArray(); res.json(scholarships)
LegacyFind ==
    /\ pc = "legacyFind"
    /\ QueryValid(BuildQuery(query))
    /\ res' = BareList(SortDocs(Find(scholarships, BuildQuery(query)),
                                sortOptions(query)))
    /\ pc' = "done"
    /\ log' = Settle(log, "ok")
    /\ UNCHANGED <<conn, colls, query, relId, found, writers>>

\* find(query).sort(sortOptions).skip(skip).limit(limitNum).toArray()
PageFind ==
    /\ pc = "pageFind"
    /\ QueryValid(BuildQuery(query))
    /\ SkipValid(skip(query))
    /\ found' = Window(scholarships, BuildQuery(query), sortOptions(query),
                        skip(query), limitNum(query))
    /\ pc' = "count"
    /\ log' = Issue(Settle(log, "ok"), "countDocuments")
    /\ UNCHANGED <<conn, colls, query, relId, res, writers>>

\* countDocuments(query); res.json({ scholarships, pagination, filters })
Count ==
    /\ pc = "count"
    /\ res' = Envelope(query, found, CountDocuments(scholarships, BuildQuery(query)))
    /\ pc' = "done"
    /\ log' = Settle(log, "ok")
    /\ UNCHANGED <<conn, colls, query, relId, found, writers>>

\* the store rejects the command: an invalid $regex or a negative skip
StoreRejects ==
    /\ \/ pc = "legacyFind" /\ ~QueryValid(BuildQuery(query))
       \/ pc = "pageFind"
            /\ (~QueryValid(BuildQuery(query)) \/ ~SkipValid(skip(query)))
    /\ res' = ErrorResponse("rejected")
    /\ pc' = "done"
    /\ log' = Settle(log, "rejected")
    /\ UNCHANGED <<conn, colls, query, relId, found, writers>>

\* variant: a failure of the count answers with the items already fetched
StoreFails_PartialResult ==
    /\ pc \in {"legacyFind", "pageFind", "count", "relFindOne", "relFind"}
    /\ res' = IF pc = "count" THEN BareList(found) ELSE ErrorResponse("unreachable")
    /\ pc' = "done"
    /\ log' = Settle(log, "unreachable")
    /\ UNCHANGED <<conn, colls, query, relId, found, writers>>

\* the store is unreachable (timeout, connection loss) at an await
StoreFails ==
    /\ pc \in {"legacyFind", "pageFind", "count", "relFindOne", "relFind"}
    /\ res' = ErrorResponse("unreachable")
    /\ pc' = "done"
    /\ log' = Settle(log, "unreachable")
    /\ UNCHANGED <<conn, colls, query, relId, found, writers>>

(***************************************************************************)
(* GET /api/scholarships/:id/related                                       *)
(***************************************************************************)
RelatedLimit == 4

NotFound == [status |-> 404, kind |-> "notFound", scholarships |-> <<>>]

\* the ids the model requests: every document, one id past the collection,
\* and a text that is no ObjectId
RelatedIds == {ObjectId(i) : i \in 1..(MaxDocs + 1)} \cup {MalformedId}

\* find({ _id: { $ne: id }, subjectCategory }).limit(4).toArray()
FindRelated(coll, id, category) ==
    Limit(SelectSeq(coll, LAMBDA d : d.id # id.oid /\ d.subjectCategory = category),
          RelatedLimit)

\* the request arrives: new ObjectId(req.params.id) throws for a malformed
\* id (caught: 500), otherwise findOne is issued
RelatedReceive ==
    /\ pc = "idle"
    /\ \E id \in RelatedIds :
          /\ relId' = id
          /\ IF id.valid
               THEN /\ pc' = "relFindOne"
                    /\ log' = Issue(log, "findOne")
                    /\ res' = res
               ELSE /\ pc' = "done"
                    /\ log' = log
                    /\ res' = ErrorResponse("invalid id")
    /\ UNCHANGED <<conn, colls, query, found, writers>>

\* findOne returns: 404 when there is no such scholarship, otherwise the
\* find for the related ones is issued
RelatedFindOne ==
    /\ pc = "relFindOne"
    /\ LET currentScholarship == ById(scholarships, relId)
       IN  IF currentScholarship = <<>>
             THEN /\ res' = NotFound
                  /\ pc' = "done"
                  /\ log' = Settle(log, "ok")
                  /\ found' = found
             ELSE /\ found' = currentScholarship
                  /\ pc' = "relFind"
                  /\ log' = Issue(Settle(log, "ok"), "find")
                  /\ res' = res
    /\ UNCHANGED <<conn, colls, query, relId, writers>>

\* variant: the related scholarships are taken out of the collection
RelatedFind_Consumes ==
    /\ pc = "relFind"
    /\ res' = BareList(FindRelated(scholarships, relId, found[1].subjectCategory))
    /\ scholarships' = SelectSeq(scholarships,
           LAMBDA d : d.id = relId.oid \/ d.subjectCategory # found[1].subjectCategory)
    /\ pc' = "done"
    /\ log' = Settle(log, "ok")
    /\ UNCHANGED <<conn, users, applications, reviews, query, relId, found, writers>>

\* the related scholarships arrive: res.json(relatedScholarships)
RelatedFind ==
    /\ pc = "relFind"
    /\ res' = BareList(FindRelated(scholarships, relId, found[1].subjectCategory))
    /\ pc' = "done"
    /\ log' = Settle(log, "ok")
    /\ UNCHANGED <<conn, colls, query, relId, found, writers>>

\* the response has been delivered; the server waits for the next request
Deliver ==
    /\ pc = "done"
    /\ pc' = "idle"
    /\ query' = NoQuery
    /\ relId' = NoId
    /\ found' = <<>>
    /\ res' = NoResponse
    /\ log' = <<>>
    /\ UNCHANGED <<conn, colls, writers>>

Next ==
    \/ Receive
    \/ LegacyFind
    \/ PageFind
    \/ Count
    \/ StoreRejects
    \/ StoreFails
    \/ RelatedReceive
    \/ RelatedFindOne
    \/ RelatedFind
    \/ Deliver

Spec == Init /\ [][Next]_vars

(***************************************************************************)
(* The authenticated write routes: verifyToken, then isAdmin or            *)
(* isModeratorOrAdmin, then the handler.  w[s].pc is the position of the   *)
(* request on connection s: "verifyIdToken" (awaiting the identity         *)
(* provider), "findUser" (awaiting the gate's findOne), "store" (awaiting  *)
(* the handler's write), "done".                                           *)
(***************************************************************************)
PostScholarship == "POST /api/scholarships"
PutScholarship == "PUT /api/scholarships/:id"
DeleteScholarship == "DELETE /api/scholarships/:id"
PatchRole == "PATCH /api/users/:email/role"
PatchStatus == "PATCH /api/applications/:id/status"

PostReview == "POST /api/reviews"
PutReview == "PUT /api/reviews/:id"
DeleteReview == "DELETE /api/reviews/:id"
PostUser == "POST /api/users"
PutUser == "PUT /api/users/:email"
DeleteUser == "DELETE /api/users/:email"
\* the script src/scripts/setupAdmin.js, run from the command line
SetupAdmin == "setupAdmin"

ScholarshipRoutes == {PostScholarship, PutScholarship, DeleteScholarship}

Registration(route, auth, gate, handler) ==
    [route |-> route, auth |-> auth, gate |-> gate, handler |-> handler]

\* the registrations of the modelled routes, in the order of the file
Registrations ==
    << Registration(PostScholarship, TRUE, "isAdmin", "postScholarship"),
       Registration(PutScholarship, TRUE, "isAdmin", "putScholarship"),
       Registration(DeleteScholarship, TRUE, "isAdmin", "deleteScholarship"),
       Registration(PostReview, TRUE, "", "postReview"),
       Registration(PutReview, TRUE, "", "putReview"),
       Registration(DeleteReview, TRUE, "", "deleteReview"),
       Registration(PatchStatus, TRUE, "isModeratorOrAdmin", "patchStatus"),
       Registration(PostReview, TRUE, "", "postReview2"),
       Registration(PutReview, TRUE, "", "putReview2"),
       Registration(DeleteReview, TRUE, "", "deleteReview2"),
       Registration(PostUser, FALSE, "", "postUser"),
       Registration(PutUser, TRUE, "", "putUser"),
       Registration(PatchRole, TRUE, "isAdmin", "patchRole"),
       Registration(DeleteUser, TRUE, "isAdmin", "deleteUser") >>

\* the router runs the first registration that matches; none of the
\* handlers calls next(), so a later registration of the same route is
\* never entered.  The script is not dispatched by the router.
Dispatch(route) ==
    IF route = SetupAdmin
      THEN Registration(SetupAdmin, FALSE, "", "setupAdmin")
      ELSE Registrations[CHOOSE i \in 1..Len(Registrations) :
                            /\ Registrations[i].route = route
                            /\ \A j \in 1..(i - 1) : Registrations[j].route # route]

\* the last id the store hands out to an insert of the model
MaxInsertId == 2

NewFees == 25

\* a scholarship as a client posts it: without _id
NewScholarship == [f \in DOMAIN Doc(1) \ {"id"} |-> Doc(1)[f]]

ScholarshipRequests ==
    {Request(PostScholarship, h, NoId, "", NewScholarship) : h \in Headers}
        \cup {Request(PutScholarship, h, ObjectId(1), "", [applicationFees |-> NewFees])
                 : h \in Headers}
        \cup {Request(DeleteScholarship, h, ObjectId(1), "", NoBody) : h \in Headers}

RoleRequests ==
    {Request(PatchRole, h, NoId, e, [role |-> r])
        : h \in Headers, e \in Emails, r \in {"student", "admin"}}

StatusBodies ==
    { [applicationStatus |-> "completed"],
      [applicationStatus |-> "rejected", feedback |-> "incomplete"],
      [applicationStatus |-> "processing", feedback |-> ""],
      [feedback |-> "late"] }

StatusRequests ==
    {Request(PatchStatus, h, ObjectId(1), "", b) : h \in Headers, b \in StatusBodies}

\* variant: any user with a record passes the gate
isAdmin_AnyUser(user) == user # NoUser

\* isAdmin: !user || user.role !== 'admin' is refused
isAdmin(user) == user # NoUser /\ user.role = "admin"

\* variant: any user with a record passes the gate
isModeratorOrAdmin_AnyUser(user) == user # NoUser

\* isModeratorOrAdmin
isModeratorOrAdmin(user) ==
    user # NoUser /\ (user.role = "admin" \/ user.role = "moderator")

\* the gate registered on the route
GatePasses(route, user) ==
    IF Dispatch(route).gate = "isModeratorOrAdmin"
      THEN isModeratorOrAdmin(user)
      ELSE isAdmin(user)

validRoles == {"student", "moderator", "admin"}

\* a field the request leaves undefined is stored as null
Null == "null"

\* const updateData = { applicationStatus }; if (feedback) updateData.feedback = feedback
updateData(body) ==
    LET status == [applicationStatus |-> IF "applicationStatus" \in DOMAIN body
                                         THEN body.applicationStatus ELSE Null]
    IN  IF "feedback" \in DOMAIN body /\ body.feedback # ""
          THEN Merge(status, [feedback |-> body.feedback])
          ELSE status

\* the position of the first document whose field has the value, or one
\* past the collection
FirstMatch(coll, field, value) ==
    CHOOSE i \in 1..(Len(coll) + 1) :
        /\ i <= Len(coll) => coll[i][field] = value
        /\ \A j \in 1..(i - 1) : coll[j][field] # value

Matched(coll, field, value) == FirstMatch(coll, field, value) <= Len(coll)

\* updateOne({ field: value }, { $set })
UpdateOne(coll, field, value, set) ==
    [i \in 1..Len(coll) |->
        IF i = FirstMatch(coll, field, value) THEN Merge(coll[i], set) ELSE coll[i]]

\* deleteOne({ field: value })
DeleteOne(coll, field, value) ==
    LET first == FirstMatch(coll, field, value)
    IN  IF first > Len(coll) THEN coll
        ELSE [i \in 1..(Len(coll) - 1) |-> IF i < first THEN coll[i] ELSE coll[i + 1]]

\* insertOne(doc): the store gives the document the next id
InsertOne(coll, doc) == Append(coll, Merge(doc, [id |-> nextId]))

\* !body.field of JavaScript: the field is missing, "" or 0
Falsy(body, f) ==
    \/ f \notin DOMAIN body
    \/ IF f = "ratingPoint" THEN body[f] = 0 ELSE body[f] = ""

\* the fields POST /api/reviews requires
RequiredOfReview ==
    { "scholarshipId", "scholarshipName", "universityName", "userName",
      "userEmail", "ratingPoint", "reviewComment" }

\* const newReview = { ... } (userImage and reviewDate are left out)
newReview(body) == [f \in RequiredOfReview |-> body[f]]

\* findOne({ scholarshipId, userEmail })
FindReviewOf(coll, scholarshipId, userEmail) ==
    SelectSeq(coll, LAMBDA r : r.scholarshipId = scholarshipId /\ r.userEmail = userEmail)

\* $set of PUT /api/reviews/:id (reviewDate is left out)
reviewUpdate(body) ==
    [ratingPoint |-> body.ratingPoint, reviewComment |-> body.reviewComment]

AdminEmail == "alice"

\* setupAdmin: const adminUser = { email, name, photoURL, role: 'admin' }
adminUser ==
    [email |-> AdminEmail, name |-> "System Administrator", photoURL |-> "img68",
     role |-> "admin"]

\* variant: the role is taken from the body
userData_RoleFromBody(body) ==
    [ email |-> body.email,
      name |-> IF Falsy(body, "name") THEN "Anonymous" ELSE body.name,
      photoURL |-> IF Falsy(body, "photoURL") THEN "" ELSE body.photoURL,
      role |-> IF "role" \in DOMAIN body THEN body.role ELSE "student" ]

\* POST /api/users: const userData = { email, name, photoURL, role: 'student' }
userData(body) ==
    [ email |-> body.email,
      name |-> IF Falsy(body, "name") THEN "Anonymous" ELSE body.name,
      photoURL |-> IF Falsy(body, "photoURL") THEN "" ELSE body.photoURL,
      role |-> "student" ]

\* PUT /api/users/:email: if (name) ...; if (photoURL !== undefined) ...
profileUpdate(body) ==
    [f \in {g \in {"name", "photoURL"} :
              /\ g \in DOMAIN body
              /\ g = "name" => ~Falsy(body, "name")} |-> body[f]]

\* the result of a findOne as the list of its hits, at most one
Hits(user) == IF user = NoUser THEN <<>> ELSE <<user>>

\* variant: an admin may delete the own account
SelfDelete_Never(x) == FALSE

\* DELETE /api/users/:email: email === req.user.email
SelfDelete(x) == x.req.email = x.user

\* next() has reached the handler: it runs up to its first await, which is
\* its findOne ("lookup") or its write ("store"), or answers at once
HandlerStart(x) ==
    LET r == x.req
        h == x.handler
        answer(n) == [x EXCEPT !.pc = "done", !.res = Reply(n)]
        at(p) == [x EXCEPT !.pc = p]
    IN  CASE h = "postScholarship" -> at("store")
          [] h \in {"putScholarship", "deleteScholarship", "patchStatus"} ->
               IF r.id.valid THEN at("store") ELSE answer(500)
          [] h = "patchRole" ->
               IF r.body.role \in validRoles THEN at("store") ELSE answer(400)
          [] h = "postReview" ->
               IF \E f \in RequiredOfReview : Falsy(r.body, f)
                 THEN answer(400) ELSE at("lookup")
          [] h = "putReview" ->
               IF Falsy(r.body, "ratingPoint") \/ Falsy(r.body, "reviewComment")
                 THEN answer(400)
               ELSE IF r.id.valid THEN at("lookup") ELSE answer(500)
          [] h \in {"deleteReview", "putReview2", "deleteReview2"} ->
               IF r.id.valid THEN at("lookup") ELSE answer(500)
          [] h = "postReview2" -> at("store")
          [] h = "postUser" ->
               IF Falsy(r.body, "email") THEN answer(400) ELSE at("lookup")
          [] h = "putUser" -> at("lookup")
          [] h = "deleteUser" ->
               IF SelfDelete(x) THEN answer(400) ELSE at("store")
          [] h = "setupAdmin" -> at("lookup")

\* the request arrives and is dispatched; verifyToken runs up to
\* verifyIdToken (a route without verifyToken enters its handler)
WReceive(s, requests) ==
    /\ w[s].pc = "idle"
    /\ \E r \in requests :
          /\ r.route \in {PostScholarship, PostReview} => nextId <= MaxInsertId
          /\ LET reg == Dispatch(r.route)
                 x == [IdleWriter EXCEPT !.req = r, !.handler = reg.handler]
             IN  w' = [w EXCEPT ![s] =
                   IF ~reg.auth THEN HandlerStart(x)
                   ELSE IF r.header.scheme # "Bearer"
                     THEN [x EXCEPT !.pc = "done", !.res = Reply(401)]
                   ELSE [x EXCEPT !.pc = "verifyIdToken"]]
    /\ UNCHANGED <<conn, colls, reader, ids>>

\* verifyIdToken settles: 401, or req.user = decodedToken and next(): the
\* gate issues its findOne, or the handler of a route without gate starts
VerifyToken(s) ==
    /\ w[s].pc = "verifyIdToken"
    /\ w' = [w EXCEPT ![s] =
          IF ~TokenAccepted(w[s].req.header)
            THEN [@ EXCEPT !.pc = "done", !.res = Reply(401)]
          ELSE IF Dispatch(w[s].req.route).gate # ""
            THEN [@ EXCEPT !.pc = "findUser", !.user = w[s].req.header.email]
          ELSE HandlerStart([w[s] EXCEPT !.user = w[s].req.header.email])]
    /\ UNCHANGED <<conn, colls, reader, ids>>

\* the gate's findOne returns: 403, or next() and the handler starts
RoleCheck(s) ==
    /\ w[s].pc = "findUser"
    /\ LET user == FindUser(users, w[s].user)
       IN  w' = [w EXCEPT ![s] =
             IF ~GatePasses(w[s].req.route, user)
               THEN [@ EXCEPT !.pc = "done", !.dbUser = user, !.res = Reply(403)]
               ELSE HandlerStart([w[s] EXCEPT !.dbUser = user])]
    /\ UNCHANGED <<conn, colls, reader, ids>>

\* the handler's findOne returns: the handler answers 400, 403 or 404, or
\* goes on to its write (deleteReview2 first reads the caller's user)
Lookup(s) ==
    /\ w[s].pc \in {"lookup", "lookup2"}
    /\ LET x == w[s]
           r == x.req
           h == x.handler
           answer(n) == [x EXCEPT !.pc = "done", !.res = Reply(n)]
           saw(p, hits) == [x EXCEPT !.pc = p, !.seen = hits]
           review == ById(reviews, r.id)
       IN  w' = [w EXCEPT ![s] =
             CASE h = "postReview" ->
                    IF FindReviewOf(reviews, r.body.scholarshipId, r.body.userEmail) # <<>>
                      THEN answer(400) ELSE saw("store", <<>>)
               [] h \in {"putReview", "deleteReview", "putReview2"} ->
                    IF review = <<>> THEN answer(404)
                    ELSE IF review[1].userEmail # x.user THEN answer(403)
                    ELSE saw("store", review)
               [] h = "deleteReview2" /\ x.pc = "lookup" ->
                    IF review = <<>> THEN answer(404) ELSE saw("lookup2", review)
               [] h = "deleteReview2" /\ x.pc = "lookup2" ->
                    IF x.seen[1].userEmail # x.user
                         /\ FindUser(users, x.user).role # "admin"
                      THEN answer(403) ELSE [x EXCEPT !.pc = "store"]
               [] h = "putUser" ->
                    IF x.user # r.email /\ FindUser(users, x.user).role # "admin"
                      THEN answer(403) ELSE saw("store", Hits(FindUser(users, x.user)))
               [] h = "postUser" -> saw("store", Hits(FindUser(users, r.body.email)))
               [] h = "setupAdmin" -> saw("store", Hits(FindUser(users, AdminEmail)))]
    /\ UNCHANGED <<conn, colls, reader, ids>>

\* the collections after the handler's write
Written(x) ==
    LET r == x.req
        h == x.handler
    IN  [ scholarships |->
            CASE h = "postScholarship" -> InsertOne(scholarships, r.body)
              [] h = "putScholarship" -> UpdateOne(scholarships, "id", r.id.oid, r.body)
              [] h = "deleteScholarship" -> DeleteOne(scholarships, "id", r.id.oid)
              [] OTHER -> scholarships,
          applications |->
            IF h = "patchStatus"
              THEN UpdateOne(applications, "id", r.id.oid, updateData(r.body))
              ELSE applications,
          reviews |->
            CASE h = "postReview" -> InsertOne(reviews, newReview(r.body))
              [] h = "postReview2" -> InsertOne(reviews, r.body)
              [] h \in {"putReview", "putReview2"} ->
                   UpdateOne(reviews, "id", r.id.oid, reviewUpdate(r.body))
              [] h \in {"deleteReview", "deleteReview2"} ->
                   DeleteOne(reviews, "id", r.id.oid)
              [] OTHER -> reviews,
          users |->
            CASE h = "patchRole" ->
                   UpdateOne(users, "email", r.email, [role |-> r.body.role])
              [] h = "deleteUser" -> DeleteOne(users, "email", r.email)
              [] h = "putUser" ->
                   UpdateOne(users, "email", r.email, profileUpdate(r.body))
              [] h = "postUser" ->
                   IF x.seen # <<>>
                     THEN UpdateOne(users, "email", r.body.email,
                                    [ name |-> userData(r.body).name,
                                      photoURL |-> userData(r.body).photoURL ])
                     ELSE Append(users, userData(r.body))
              [] h = "setupAdmin" ->
                   IF x.seen # <<>>
                     THEN UpdateOne(users, "email", AdminEmail, [role |-> "admin"])
                     ELSE Append(users, adminUser)
              [] OTHER -> users ]

\* the answer after the handler's write
Answered(x) ==
    LET r == x.req
        h == x.handler
    IN  CASE h \in {"postScholarship", "postReview", "postReview2"} -> Reply(201)
          [] h \in {"patchRole", "deleteUser", "putUser"} ->
               IF Matched(users, "email", r.email) THEN Reply(200) ELSE Reply(404)
          [] h \in {"putReview", "deleteReview"} ->
               IF Matched(reviews, "id", r.id.oid) THEN Reply(200) ELSE Reply(404)
          [] h = "postUser" ->
               IF x.seen # <<>>
                 THEN [status |-> 200, user |-> Merge(x.seen[1], userData(r.body))]
                 ELSE [status |-> 201, user |-> userData(r.body)]
          [] OTHER -> Reply(200)

\* the handler's write is applied and the handler answers
Apply(s) ==
    /\ w[s].pc = "store"
    /\ scholarships' = Written(w[s]).scholarships
    /\ applications' = Written(w[s]).applications
    /\ reviews' = Written(w[s]).reviews
    /\ users' = Written(w[s]).users
    /\ nextId' = IF w[s].handler \in {"postScholarship", "postReview", "postReview2"}
                   THEN nextId + 1 ELSE nextId
    /\ w' = [w EXCEPT ![s].pc = "done", ![s].res = Answered(w[s])]
    /\ UNCHANGED <<conn, reader>>

\* the store is unreachable at a findOne or at the handler's write
WStoreFails(s) ==
    /\ w[s].pc \in {"findUser", "lookup", "lookup2", "store"}
    /\ w' = [w EXCEPT ![s].pc = "done", ![s].res = Reply(500)]
    /\ UNCHANGED <<conn, colls, reader, ids>>

\* the response has been delivered
WDeliver(s) ==
    /\ w[s].pc = "done"
    /\ w' = [w EXCEPT ![s] = IdleWriter]
    /\ UNCHANGED <<conn, colls, reader, ids>>

\* every assignment of a role, or of no record, to the emails
UserConfigs ==
    { LET present == SelectSeq(<<"alice", "bob">>, LAMBDA e : r[e] # "")
      IN  [i \in 1..Len(present) |-> User(present[i], r[present[i]])]
        : r \in [Emails -> Roles \cup {""}] }

(***************************************************************************)
(* The admin routes over the scholarships, with role changes, on two       *)
(* connections.                                                            *)
(***************************************************************************)
InitAdmin ==
    /\ \E n \in 0..1 : scholarships = [i \in 1..n |-> Doc(i)]
    /\ users \in UserConfigs
    /\ applications = SeedApplications
    /\ reviews = SeedReviews
    /\ ReaderIdle
    /\ w = [s \in Writers |-> IdleWriter]
    /\ nextId = 2
    /\ Connected

\* the requests of the admin specification
AdminRequests == ScholarshipRequests \cup RoleRequests

ReceiveAdmin == \E s \in Writers : WReceive(s, AdminRequests)
ReceiveStatus == \E s \in Writers : WReceive(s, StatusRequests)
Verify == \E s \in Writers : VerifyToken(s)
Gate == \E s \in Writers : RoleCheck(s)
Write == \E s \in Writers : Apply(s)
WriteFails == \E s \in Writers : WStoreFails(s)
Answer == \E s \in Writers : WDeliver(s)

NextAdmin ==
    \/ ReceiveAdmin
    \/ Verify
    \/ Gate
    \/ Write
    \/ WriteFails
    \/ Answer

SpecAdmin == InitAdmin /\ [][NextAdmin]_vars

(***************************************************************************)
(* PATCH /api/applications/:id/status on two connections.                  *)
(***************************************************************************)
NextStatus ==
    \/ ReceiveStatus
    \/ Verify
    \/ Gate
    \/ Write
    \/ WriteFails
    \/ Answer

SpecStatus == InitAdmin /\ [][NextStatus]_vars

(***************************************************************************)
(* The review routes on two connections.                                   *)
(***************************************************************************)
ReviewBody(scholarshipId, userEmail) ==
    [ scholarshipId |-> scholarshipId,
      scholarshipName |-> "art",
      universityName |-> "Ben",
      userName |-> "Ann",
      userEmail |-> userEmail,
      ratingPoint |-> 5,
      reviewComment |-> "fine" ]

ReviewBodies ==
    {ReviewBody("s1", e) : e \in Emails}
        \cup {[f \in RequiredOfReview \ {"reviewComment"} |-> ReviewBody("s1", "alice")[f]]}

ReviewEdits == {[ratingPoint |-> 2, reviewComment |-> "poor"], [ratingPoint |-> 2]}

\* review 1 is stored at the start, id 2 is the next the store hands out
ReviewIds == {ObjectId(1), ObjectId(2), MalformedId}

ReviewRequests ==
    {Request(PostReview, h, NoId, "", b) : h \in Headers, b \in ReviewBodies}
        \cup {Request(PutReview, h, id, "", b)
                 : h \in Headers, id \in ReviewIds, b \in ReviewEdits}
        \cup {Request(DeleteReview, h, id, "", NoBody) : h \in Headers, id \in ReviewIds}

InitReviews ==
    /\ scholarships = <<Doc(1)>>
    /\ users = SeedUsers
    /\ applications = SeedApplications
    /\ reviews \in {<<>>, SeedReviews}
    /\ ReaderIdle
    /\ w = [s \in Writers |-> IdleWriter]
    /\ nextId = 2
    /\ Connected

ReceiveReview == \E s \in Writers : WReceive(s, ReviewRequests)
Read == \E s \in Writers : Lookup(s)

NextReviews ==
    \/ ReceiveReview
    \/ Verify
    \/ Read
    \/ Write
    \/ WriteFails
    \/ Answer

SpecReviews == InitReviews /\ [][NextReviews]_vars

(***************************************************************************)
(* The user routes and the setupAdmin script, one request after another,   *)
(* from an empty users collection.                                         *)
(***************************************************************************)
\* POST /api/users bodies: an email, an email with a name and a role, no
\* email
UserBodies ==
    { [email |-> "alice"],
      [email |-> "bob", name |-> "Ann", role |-> "root"],
      [name |-> "Ann"] }

ProfileBodies == {[name |-> "Zed", role |-> "root"], [photoURL |-> "img1"]}

UserRequests ==
    {Request(PostUser, NoHeader, NoId, "", b) : b \in UserBodies}
        \cup {Request(PutUser, h, NoId, e, b)
                 : h \in Headers, e \in Emails, b \in ProfileBodies}
        \cup {Request(PatchRole, h, NoId, e, [role |-> r])
                 : h \in Headers, e \in Emails, r \in validRoles \cup {"root"}}
        \cup {Request(DeleteUser, h, NoId, e, NoBody) : h \in Headers, e \in Emails}
        \cup {Request(SetupAdmin, NoHeader, NoId, "", NoBody)}

\* the connection that carries the requests
One == "w1"

InitUsers ==
    /\ scholarships = <<Doc(1)>>
    /\ users = <<>>
    /\ applications = SeedApplications
    /\ reviews = SeedReviews
    /\ ReaderIdle
    /\ w = [s \in Writers |-> IdleWriter]
    /\ nextId = 2
    /\ Connected

ReceiveUser == WReceive(One, UserRequests)
VerifyOne == VerifyToken(One)
GateOne == RoleCheck(One)
ReadOne == Lookup(One)
WriteOne == Apply(One)
FailOne == WStoreFails(One)
AnswerOne == WDeliver(One)

NextUsers ==
    \/ ReceiveUser
    \/ VerifyOne
    \/ GateOne
    \/ ReadOne
    \/ WriteOne
    \/ FailOne
    \/ AnswerOne

SpecUsers == InitUsers /\ [][NextUsers]_vars

(***************************************************************************)
(* Vocabulary of the properties.                                           *)
(***************************************************************************)
\* the request served is GET /api/scholarships, or the related route
OnList == relId = NoId
OnRelated == relId # NoId

Responded == pc = "done" /\ OnList

Succeeded == Responded /\ res.status = 200

RelatedResponded == pc = "done" /\ OnRelated

Paginated == Succeeded /\ res.kind = "envelope"

Legacy == Succeeded /\ res.kind = "list"

Present(n) == n \in DOMAIN query

\* the effective values of the text parameters (after destructuring defaults)
SearchText == Param(query, "search", T_empty)
CountryText == Param(query, "country", T_empty)
CategoryText == Param(query, "category", T_empty)
SortByText == Param(query, "sortBy", T_postDate)
SortOrderText == Param(query, "sortOrder", T_desc)
FormatText == Param(query, "format", T_empty)

\* s is ordered by the field: non-decreasing for dir = 1, non-increasing for -1
OrderedBy(s, field, dir) ==
    \A i \in 1..(Len(s) - 1) :
        IF dir = 1 THEN s[i][field] <= s[i + 1][field]
        ELSE s[i][field] >= s[i + 1][field]

\* the elements of s at positions lo..hi that exist, in order
WindowAt(s, lo, hi) ==
    LET first == IF lo < 1 THEN 1 ELSE lo
        last == IF hi > Len(s) THEN Len(s) ELSE hi
    IN  IF first > last THEN <<>> ELSE [i \in 1..(last - first + 1) |-> s[first + i - 1]]

\* t occurs in text as a literal substring, ignoring case
Contains(text, t) ==
    \E i \in 0..(Len(text) - Len(t)) :
        \A j \in 1..Len(t) : Lower(t[j]) = Lower(text[i + j])

\* the filtered, sorted sequence the request selects from the collection
Selected == SortDocs(Find(scholarships, BuildQuery(query)), sortOptions(query))

DocSet(s) == {s[i] : i \in 1..Len(s)}

\* the items the handler returns for effective page pg and limit lim with
\* the filter and sort of the current request (none when the store rejects)
PageItems(pg, lim) ==
    IF ~QueryValid(BuildQuery(query)) \/ ~SkipValid((pg - 1) * lim) THEN <<>>
    ELSE Window(scholarships, BuildQuery(query), sortOptions(query),
                (pg - 1) * lim, lim)

\* pageNum for the decimal text of the integer n
PageOfNumber(n) == IF n = 0 THEN DefaultPage ELSE n

(***************************************************************************)
(* Properties.                                                             *)
(***************************************************************************)

\* C1: the response is the bare list exactly when none of page, limit,
\* search, country, category is present in the query string, sortBy and
\* sortOrder equal their defaults and format is not 'full'; every other
\* request, also one with a parameter present but empty, gets the envelope.
C1_LegacyExactlyWithoutParams ==
    Succeeded =>
        (res.kind = "list" <=>
            /\ \A n \in {"page", "limit", "search", "country", "category"} :
                  ~Present(n)
            /\ SortByText = T_postDate
            /\ SortOrderText = T_desc
            /\ FormatText # T_full)

\* C2: in a paginated response the items are exactly the elements at
\* positions (page-1)*limit+1 .. page*limit of the filtered, sorted
\* sequence, for the page and limit of the response.
C2_ItemsAreThePageWindow ==
    Paginated =>
        LET p == res.pagination
        IN  res.scholarships =
                WindowAt(Selected, (p.page - 1) * p.limit + 1, p.page * p.limit)

\* C3: in a paginated response totalPages is the ceiling of total / limit:
\* the integer n with (n-1)*limit < total <= n*limit for a positive limit
\* (the inequalities reversed for a negative one).
C3_TotalPagesIsCeiling ==
    Paginated =>
        LET p == res.pagination
        IN  IF p.limit > 0
              THEN /\ p.totalPages * p.limit >= p.total
                   /\ (p.totalPages - 1) * p.limit < p.total
              ELSE /\ p.totalPages * p.limit <= p.total
                   /\ (p.totalPages - 1) * p.limit > p.total

\* C3 witness: 11 matching documents with limit 10 give 2 pages
C3_Witness ==
    /\ Paginated
    /\ res.pagination.total = 11
    /\ res.pagination.limit = 10
    /\ res.pagination.totalPages = 2

\* C4: in a paginated response hasMore is false when page*limit >= total and
\* true otherwise, and hasMore = true implies that the request for page+1
\* with the same filter and limit returns at least one item.
C4_HasMoreMeansNextPage ==
    Paginated =>
        LET p == res.pagination
        IN  /\ p.hasMore <=> ~(p.page * p.limit >= p.total)
            /\ p.hasMore => PageItems(PageOfNumber(p.page + 1), p.limit) # <<>>

\* C5: a request with no query parameter at all gets a bare list holding
\* every scholarship of the collection exactly once, by post date descending.
C5_NoParamsWholeCollection ==
    (Succeeded /\ DOMAIN query = {}) =>
        /\ res.kind = "list"
        /\ Len(res.scholarships) = Len(scholarships)
        /\ DocSet(res.scholarships) = DocSet(scholarships)
        /\ OrderedBy(res.scholarships, "postDate", -1)

\* C5 witness: the bare list of a collection whose post dates differ
C5_Witness ==
    /\ Legacy
    /\ DOMAIN query = {}
    /\ Len(res.scholarships) >= 3
    /\ res.scholarships[1].postDate > res.scholarships[Len(res.scholarships)].postDate

\* C6: a request whose only parameter is format=full gets the envelope with
\* page = 1, limit = 10 and total = the size of the whole collection.
C6_FormatFullAlone ==
    (Succeeded /\ DOMAIN query = {"format"} /\ query["format"] = T_full) =>
        /\ res.kind = "envelope"
        /\ res.pagination.page = 1
        /\ res.pagination.limit = 10
        /\ res.pagination.total = Len(scholarships)

\* C6 witness: format=full alone on a collection larger than one page
C6_Witness ==
    /\ Paginated
    /\ DOMAIN query = {"format"}
    /\ query["format"] = T_full
    /\ res.pagination.total > 10
    /\ Len(res.scholarships) = 10

\* a document satisfies every condition that is present and non-empty, each
\* read as literal text to be contained, ignoring case
LiteralMatch(d) ==
    /\ SearchText # <<>> =>
          \E f \in SearchFields : Contains(d[f], SearchText)
    /\ CountryText # <<>> => Contains(d.universityCountry, CountryText)
    /\ CategoryText # <<>> => Contains(d.subjectCategory, CategoryText)

\* C7: the scholarships selected are exactly the records that contain, as
\* literal text and ignoring case, every condition that is present (search,
\* country, category); an absent or empty condition does not constrain.
C7_SelectionIsLiteralContainment ==
    Succeeded =>
        LET literal == {d \in DocSet(scholarships) : LiteralMatch(d)}
        IN  /\ DocSet(res.scholarships) \subseteq literal
            /\ Paginated => res.pagination.total = Cardinality(literal)
            /\ Legacy => DocSet(res.scholarships) = literal

\* C8: with a non-empty search text (and no other condition) a scholarship
\* is selected if and only if the text is contained, ignoring case, in its
\* name, its university name or its degree.
C8_SearchMatchesAnyOfThreeFields ==
    (Paginated /\ SearchText # <<>> /\ CountryText = <<>> /\ CategoryText = <<>>) =>
        LET hits == {d \in DocSet(scholarships) :
                        \/ Contains(d.scholarshipName, SearchText)
                        \/ Contains(d.universityName, SearchText)
                        \/ Contains(d.degree, SearchText)}
        IN  /\ res.pagination.total = Cardinality(hits)
            /\ DocSet(res.scholarships) \subseteq hits

\* C9: with sortBy applicationFees the items are ordered by application fee
\* and with sortBy postDate by post date, ascending when sortOrder is
\* exactly 'asc' and descending for every other sortOrder.
C9_SortFieldAndDirection ==
    (Succeeded /\ SortByText \in {T_applicationFees, T_postDate}) =>
        OrderedBy(res.scholarships,
                  IF SortByText = T_applicationFees THEN "applicationFees"
                  ELSE "postDate",
                  IF SortOrderText = T_asc THEN 1 ELSE -1)

\* C9 witness: fees in descending order under an unrecognized sortOrder
C9_Witness ==
    /\ Succeeded
    /\ SortByText = T_applicationFees
    /\ Present("sortOrder")
    /\ SortOrderText \notin {T_asc, T_desc, T_empty}
    /\ Len(res.scholarships) >= 2
    /\ res.scholarships[1].applicationFees
          > res.scholarships[Len(res.scholarships)].applicationFees

\* sortBy is present with a value other than applicationFees and postDate
UnrecognizedSortBy ==
    Present("sortBy") /\ query["sortBy"] \notin {T_applicationFees, T_postDate}

\* the same query string with sortBy=postDate
AsPostDate(q) == [n \in DOMAIN q |-> IF n = "sortBy" THEN T_postDate ELSE q[n]]

\* the response mode and the items, in order, of the handler's answer to q
ModeAndItems(q) ==
    IF LegacyMode(q)
      THEN <<"list", SortDocs(Find(scholarships, BuildQuery(q)), sortOptions(q))>>
      ELSE <<"envelope", Window(scholarships, BuildQuery(q), sortOptions(q),
                                skip(q), limitNum(q))>>

C11_PageAndLimitPositive ==
    (pc \in {"pageFind", "count"} \/ Paginated) =>
        /\ pageNum(query) >= 1
        /\ limitNum(query) >= 1
        /\ skip(query) >= 0

\* C12: while the store is reachable no value of page and limit makes the
\* request fail: with a valid filter the response has status 200.
C12_PageAndLimitNeverFail ==
    (/\ Responded
     /\ QueryValid(BuildQuery(query))
     /\ ~(res.kind = "error" /\ res.error = "unreachable"))
        => res.status = 200

\* the query string reduced to its filter parameters
FilterOnly(q) ==
    [n \in DOMAIN q \cap {"search", "country", "category"} |-> q[n]]

\* C13: in a paginated response total is the number of scholarships that
\* match the filter predicate; it depends on the collection and the filter
\* only, not on page and limit.
C13_TotalIsMatchCount ==
    Paginated =>
        res.pagination.total =
            Cardinality({d \in DocSet(scholarships) :
                            DocMatches(d, BuildQuery(FilterOnly(query)))})

\* C13 witness: a second page of 5 out of 12 matching scholarships
C13_Witness ==
    /\ Paginated
    /\ res.pagination.page = 2
    /\ res.pagination.limit = 5
    /\ res.pagination.total = 12
    /\ Len(res.scholarships) = 5

\* a store call of the request failed
Failed(l) == \E i \in 1..Len(l) : l[i].outcome # "ok" /\ l[i].outcome # "pending"

\* C14: the related route, when the store answers, returns for an existing
\* scholarship at most 4 records, none with the requested id and all of
\* the requested scholarship's subject category; for an id that matches no
\* scholarship it answers 404 with no records.
C14_RelatedOrNotFound ==
    (RelatedResponded /\ ~Failed(log)) =>
        LET current == ById(scholarships, relId)
        IN  IF current # <<>>
              THEN /\ res.status = 200
                   /\ Len(res.scholarships) <= 4
                   /\ \A i \in 1..Len(res.scholarships) :
                         /\ res.scholarships[i].id # relId.oid
                         /\ res.scholarships[i].subjectCategory
                              = current[1].subjectCategory
              ELSE /\ res.status = 404
                   /\ res.scholarships = <<>>

\* C15: on the list route a response exists exactly when the handler has
\* finished; a failed store call (the page query or the count) gives status
\* 500 with the failure's message and no items; without a failure the
\* response is 200 with the whole list or the whole envelope; a failed call
\* is the request's last call and no call is issued twice.
C15_AllOrNothingNoRetry ==
    (OnList /\ pc # "idle") =>
        /\ (pc = "done") = (res # NoResponse)
        /\ \A i \in 1..Len(log) :
              /\ i < Len(log) => log[i].outcome = "ok"
              /\ \A j \in 1..Len(log) : log[i].op = log[j].op => i = j
        /\ (pc = "done" /\ Failed(log)) =>
              /\ res.status = 500
              /\ res.kind = "error"
              /\ res.error = log[Len(log)].outcome
              /\ res.scholarships = <<>>
        /\ (pc = "done" /\ ~Failed(log)) =>
              /\ res.status = 200
              /\ res.kind = "list" =>
                    /\ [i \in 1..Len(log) |-> log[i].op] = <<"find">>
                    /\ res.scholarships
                         = SortDocs(Find(scholarships, BuildQuery(query)),
                                    sortOptions(query))
              /\ res.kind = "envelope" =>
                    /\ [i \in 1..Len(log) |-> log[i].op]
                         = <<"find", "countDocuments">>
                    /\ res = Envelope(query,
                                      Window(scholarships, BuildQuery(query),
                                             sortOptions(query), skip(query),
                                             limitNum(query)),
                                      CountDocuments(scholarships, BuildQuery(query)))
              /\ res.kind \in {"list", "envelope"}

\* the count fails after the page query has returned items
C15_Witness ==
    /\ Responded
    /\ Len(log) = 2
    /\ log[2] = [op |-> "countDocuments", outcome |-> "unreachable"]
    /\ found # <<>>
    /\ res.status = 500

\* C16: no step of GET /api/scholarships or of the related route, whether
\* it succeeds or fails, changes the scholarships collection or any other
\* collection.
C16_ReadPathsArePure ==
    [][scholarships' = scholarships /\ users' = users
       /\ applications' = applications]_vars

\* both routes have answered against a non-empty collection: the related
\* route with a failure of its second call
C16_Witness ==
    /\ RelatedResponded
    /\ scholarships # <<>>
    /\ res.status = 500
    /\ Len(log) = 2
    /\ log[2].outcome = "unreachable"

\* C17: the filters field of a paginated response names the search,
\* country, category, sort field and sort direction that were applied: the
\* echoed sortBy is one of the two sort fields, the echoed sortOrder one of
\* the two directions, and the items are ordered that way.
C17_FiltersEchoWhatWasApplied ==
    Paginated =>
        LET f == res.filters
        IN  /\ f.search = SearchText
            /\ f.country = CountryText
            /\ f.category = CategoryText
            /\ f.sortBy \in {T_applicationFees, T_postDate}
            /\ f.sortOrder \in {T_asc, T_desc}
            /\ OrderedBy(res.scholarships,
                         IF f.sortBy = T_applicationFees THEN "applicationFees"
                         ELSE "postDate",
                         IF f.sortOrder = T_asc THEN 1 ELSE -1)

\* C18: as the doc comment says, the response is the envelope when
\* format=full is given and the bare array when format is omitted, whatever
\* the other parameters are.
C18_FormatAloneDecidesTheShape ==
    Succeeded =>
        /\ FormatText = T_full => res.kind = "envelope"
        /\ ~Present("format") => res.kind = "list"

(***************************************************************************)
(* GET /api/scholarships with page and limit while an admin creates and    *)
(* deletes scholarships on another connection.                             *)
(***************************************************************************)
PageQueries ==
    { [limit |-> <<"1">>],
      [page |-> <<"2">>, limit |-> <<"1">>],
      [page |-> <<"2">>] }

AdminHeader == [scheme |-> "Bearer", email |-> "alice"]

CreateAndDelete ==
    {Request(PostScholarship, AdminHeader, NoId, "", NewScholarship)}
        \cup {Request(DeleteScholarship, AdminHeader, ObjectId(i), "", NoBody)
                 : i \in 1..2}

InitInterleaved ==
    /\ scholarships = <<Doc(1)>>
    /\ users = SeedUsers
    /\ applications = SeedApplications
    /\ reviews = SeedReviews
    /\ ReaderIdle
    /\ w = [s \in Writers |-> IdleWriter]
    /\ nextId = 2
    /\ Connected

ReceivePage == ReceiveOf(PageQueries)
ReceiveCreateOrDelete == WReceive(One, CreateAndDelete)

NextInterleaved ==
    \/ ReceivePage
    \/ PageFind
    \/ Count
    \/ StoreFails
    \/ Deliver
    \/ ReceiveCreateOrDelete
    \/ VerifyOne
    \/ GateOne
    \/ WriteOne
    \/ FailOne
    \/ AnswerOne

SpecInterleaved == InitInterleaved /\ [][NextInterleaved]_vars

(***************************************************************************)
(* Connecting to the store: run, connectToDatabase and the middleware that *)
(* every data route passes.                                                *)
(***************************************************************************)
\* the module has been loaded: connectToDatabase() was called, run() waits
\* for client.connect(), no handle is assigned and no request has arrived
InitConnect ==
    /\ scholarships = <<Doc(1)>>
    /\ users = SeedUsers
    /\ applications = SeedApplications
    /\ reviews = SeedReviews
    /\ ReaderIdle
    /\ w = [s \in Writers |-> IdleWriter]
    /\ nextId = 2
    /\ isConnected = FALSE
    /\ handles = FALSE
    /\ cpc = [c \in Callers |-> IF c = "startup" THEN "connecting" ELSE "idle"]

\* a request to a data route arrives at the middleware: with isConnected it
\* calls next(), otherwise connectToDatabase(), which calls run(), which
\* waits for client.connect()
Middleware(r) ==
    /\ cpc[r] = "idle"
    /\ cpc' = [cpc EXCEPT ![r] = IF isConnected THEN "handler" ELSE "connecting"]
    /\ UNCHANGED <<isConnected, handles, colls, reader, writers>>

\* client.connect() resolves: run assigns the collection handles and returns
run(c) ==
    /\ cpc[c] = "connecting"
    /\ handles' = TRUE
    /\ cpc' = [cpc EXCEPT ![c] = "ran"]
    /\ UNCHANGED <<isConnected, colls, reader, writers>>

\* client.connect() rejects: run's catch logs the error and run returns
run_Catch(c) ==
    /\ cpc[c] = "connecting"
    /\ cpc' = [cpc EXCEPT ![c] = "ran"]
    /\ UNCHANGED <<isConnected, handles, colls, reader, writers>>

\* await run() has returned: isConnected = true; the call made at start-up
\* is finished, the one made by the middleware returns to it
connectToDatabase(c) ==
    /\ cpc[c] = "ran"
    /\ isConnected' = TRUE
    /\ cpc' = [cpc EXCEPT ![c] = IF c = "startup" THEN "done" ELSE "connected"]
    /\ UNCHANGED <<handles, colls, reader, writers>>

\* await connectToDatabase() has returned in the middleware: next()
MiddlewareNext(r) ==
    /\ cpc[r] = "connected"
    /\ cpc' = [cpc EXCEPT ![r] = "handler"]
    /\ UNCHANGED <<isConnected, handles, colls, reader, writers>>

\* the handler of the data route has answered
HandlerReturns(r) ==
    /\ cpc[r] = "handler"
    /\ cpc' = [cpc EXCEPT ![r] = "idle"]
    /\ UNCHANGED <<isConnected, handles, colls, reader, writers>>

Arrive == \E r \in Requesters : Middleware(r)
ConnectResolves == \E c \in Callers : run(c)
ConnectRejects == \E c \in Callers : run_Catch(c)
SetConnected == \E c \in Callers : connectToDatabase(c)
Proceed == \E r \in Requesters : MiddlewareNext(r)
Return == \E r \in Requesters : HandlerReturns(r)

NextConnect ==
    \/ Arrive
    \/ ConnectResolves
    \/ ConnectRejects
    \/ SetConnected
    \/ Proceed
    \/ Return

SpecConnect == InitConnect /\ [][NextConnect]_vars

(***************************************************************************)
(* Properties of the authenticated write routes.                           *)
(***************************************************************************)
\* the request on s carried a Bearer token the identity provider accepts
Authenticated(s) ==
    w[s].req.header.scheme = "Bearer" /\ TokenAccepted(w[s].req.header)

\* the step is the return of the gate's findOne on s
GateStep(s) == w[s].pc = "findUser" /\ w'[s].pc # "findUser" /\ w'[s].res.status # 500

\* the step ends the handler's store call on s
StoreStep(s) == w[s].pc = "store" /\ w'[s].pc = "done"

\* C19: the scholarships collection changes only in the store step of a
\* POST, PUT or DELETE /api/scholarships request that carried an accepted
\* Bearer token and for which the users collection, when isAdmin read it,
\* held a user with the token's email and role admin; a request without an
\* accepted token is answered 401; a request whose user isAdmin finds
\* absent or not admin is answered 403; in both cases the handler is not
\* entered and no collection changes.
C19_OnlyAdminsChangeScholarships ==
    /\ [](\A s \in Writers :
            /\ w[s].pc \in {"verifyIdToken", "findUser", "store"}
                  => w[s].req.header.scheme = "Bearer"
            /\ w[s].pc \in {"findUser", "store"} => Authenticated(s)
            /\ (w[s].pc = "done" /\ ~Authenticated(s)) => w[s].res.status = 401
            /\ w[s].pc = "store" =>
                  /\ w[s].dbUser.email = w[s].req.header.email
                  /\ w[s].dbUser.role = "admin")
    /\ [][\A s \in Writers :
            /\ GateStep(s) =>
                  LET user == FindUser(users, w[s].req.header.email)
                  IN  /\ w'[s].dbUser = user
                      /\ (user = NoUser \/ user.role # "admin") =>
                            /\ w'[s].pc = "done"
                            /\ w'[s].res.status = 403
                            /\ colls' = colls
            /\ (w[s].pc # "done" /\ w'[s].pc = "done"
                   /\ w'[s].res.status \in {401, 403}) =>
                  /\ w[s].pc # "store"
                  /\ colls' = colls]_vars
    /\ [][scholarships' # scholarships =>
            \E s \in Writers :
                /\ StoreStep(s)
                /\ w[s].req.route \in ScholarshipRoutes
                /\ Authenticated(s)
                /\ w[s].dbUser.role = "admin"]_vars

\* an admin's POST has added a scholarship while a student's request on the
\* other connection was refused
C19_Witness ==
    \E s, t \in Writers :
        /\ w[s].pc = "done"
        /\ w[s].req.route = PostScholarship
        /\ w[s].res.status = 201
        /\ Len(scholarships) = 2
        /\ w[t].pc = "done"
        /\ w[t].req.route = DeleteScholarship
        /\ w[t].dbUser.role = "student"
        /\ w[t].res.status = 403

\* the fields of an application that the status route may write
StatusFields == {"applicationStatus", "feedback"}

\* C20: a PATCH /api/applications/:id/status request reaches its store
\* step only when isModeratorOrAdmin found the caller's user with role
\* admin or moderator; a caller found with role student or without a user
\* record is answered 403 and the applications are unchanged; the store
\* step sets applicationStatus of the application with the id, sets
\* feedback only to a feedback the body supplies, and leaves the other
\* fields and the other applications as they were.
C20_StatusOnlyByModeratorOrAdmin ==
    /\ [](\A s \in Writers :
            (w[s].pc = "store" /\ w[s].req.route = PatchStatus) =>
                /\ w[s].dbUser.email = w[s].req.header.email
                /\ w[s].dbUser.role \in {"admin", "moderator"})
    /\ [][\A s \in Writers :
            (w[s].req.route = PatchStatus /\ GateStep(s)) =>
                LET user == FindUser(users, w[s].req.header.email)
                IN  (user = NoUser \/ user.role = "student") =>
                        /\ w'[s].pc = "done"
                        /\ w'[s].res.status = 403
                        /\ applications' = applications]_vars
    /\ [][\A s \in Writers :
            (w[s].req.route = PatchStatus /\ w'[s] # w[s]) =>
                \/ applications' = applications /\ ~(StoreStep(s) /\ w'[s].res.status = 200)
                \/ /\ StoreStep(s)
                   /\ Len(applications') = Len(applications)
                   /\ \A i \in 1..Len(applications) :
                         LET old == applications[i]
                             new == applications'[i]
                             body == w[s].req.body
                         IN  IF old.id # w[s].req.id.oid
                               THEN new = old
                               ELSE /\ DOMAIN old \subseteq DOMAIN new
                                    /\ DOMAIN new \subseteq DOMAIN old \cup StatusFields
                                    /\ \A f \in DOMAIN old \ StatusFields : new[f] = old[f]
                                    /\ "applicationStatus" \in DOMAIN body =>
                                          new.applicationStatus = body.applicationStatus
                                    /\ "feedback" \in DOMAIN new =>
                                          \/ /\ "feedback" \in DOMAIN body
                                             /\ new.feedback = body.feedback
                                          \/ /\ "feedback" \in DOMAIN old
                                             /\ new.feedback = old.feedback]_vars

\* a moderator has set status and feedback of application 1 and a student
\* was refused on the other connection
C20_Witness ==
    \E s, t \in Writers :
        /\ w[s].pc = "done"
        /\ w[s].dbUser.role = "moderator"
        /\ w[s].res.status = 200
        /\ w[s].req.body = [applicationStatus |-> "rejected", feedback |-> "incomplete"]
        /\ applications[1] = Merge(Application(1), w[s].req.body)
        /\ applications[2] = Application(2)
        /\ w[t].pc = "done"
        /\ w[t].dbUser.role = "student"
        /\ w[t].res.status = 403

(***************************************************************************)
(* Properties of the review routes.                                        *)
(***************************************************************************)
\* C21: whatever the interleaving of the POST /api/reviews requests, the
\* reviews collection holds at most one review for each pair
\* (scholarshipId, userEmail).
C21_OneReviewPerPair ==
    \A i, j \in 1..Len(reviews) :
        (/\ reviews[i].scholarshipId = reviews[j].scholarshipId
         /\ reviews[i].userEmail = reviews[j].userEmail) => i = j

\* the step on s ends a PUT or DELETE /api/reviews/:id request otherwise
\* than by a store failure
ReviewAnswer(s) ==
    /\ w[s].req.route \in {PutReview, DeleteReview}
    /\ Authenticated(s)
    /\ w[s].pc # "done"
    /\ w'[s].pc = "done"
    /\ ~(w[s].pc \in {"lookup", "lookup2", "store"} /\ w'[s].res.status = 500)

\* C22: a review is changed or removed only by the store step of a PUT or
\* DELETE request whose token's email is the review's userEmail; such a
\* request by another authenticated user is answered 403 and one for an id
\* with no review is answered 404, both without changing the reviews.
C22_OnlyTheAuthorChangesAReview ==
    /\ [][\A i \in 1..Len(reviews) :
            (\A j \in 1..Len(reviews') : reviews'[j] # reviews[i]) =>
                \E s \in Writers :
                    /\ StoreStep(s)
                    /\ w[s].req.route \in {PutReview, DeleteReview}
                    /\ w[s].req.id.oid = reviews[i].id
                    /\ Authenticated(s)
                    /\ w[s].req.header.email = reviews[i].userEmail]_vars
    /\ [][\A s \in Writers :
            ReviewAnswer(s) =>
                LET review == ById(reviews, w[s].req.id)
                IN  /\ review = <<>> =>
                          (w'[s].res.status = 404 /\ reviews' = reviews)
                    /\ (review # <<>> /\ review[1].userEmail # w[s].req.header.email) =>
                          (w'[s].res.status = 403 /\ reviews' = reviews)]_vars

\* C23: a DELETE /api/reviews/:id by a caller whose user has role admin is
\* not refused for not being the author: it deletes the review (200), or
\* finds none (404).
C23_AdminDeletesAnyReview ==
    \A s \in Writers :
        (/\ w[s].pc = "done"
         /\ w[s].req.route = DeleteReview
         /\ w[s].req.id.valid
         /\ Authenticated(s)
         /\ FindUser(users, w[s].req.header.email).role = "admin"
         /\ w[s].res.status # 500) => w[s].res.status \in {200, 404}

(***************************************************************************)
(* Properties of the user routes.                                          *)
(***************************************************************************)
\* C24: a DELETE /api/users/:email request that passed isAdmin and whose
\* token's email is :email is answered 400 and leaves the users unchanged
\* (it never reaches deleteOne); for another email its store step removes
\* one record, a record with that email, leaves every other record as it
\* was and answers 200, or answers 404 and changes nothing when no record
\* has that email (a deleteOne that fails is answered 500).
C24_AdminDeletesOtherUsersOnly ==
    /\ [](\A s \in Writers :
            (w[s].req.route = DeleteUser /\ w[s].pc = "store") =>
                /\ w[s].dbUser.role = "admin"
                /\ w[s].req.email # w[s].req.header.email)
    /\ [][\A s \in Writers :
            w[s].req.route = DeleteUser =>
                /\ (/\ GateStep(s)
                    /\ FindUser(users, w[s].req.header.email).role = "admin"
                    /\ w[s].req.email = w[s].req.header.email) =>
                      /\ w'[s].pc = "done"
                      /\ w'[s].res = [status |-> 400]
                      /\ users' = users
                /\ (StoreStep(s) /\ w'[s].res.status # 500) =>
                      LET hits == {i \in 1..Len(users) : users[i].email = w[s].req.email}
                      IN  IF hits = {}
                            THEN w'[s].res.status = 404 /\ users' = users
                            ELSE /\ w'[s].res.status = 200
                                 /\ \E i \in hits :
                                      users' = [k \in 1..(Len(users) - 1) |->
                                                  IF k < i THEN users[k] ELSE users[k + 1]]]_vars

\* an admin's request to delete the own account has been answered 400 while
\* another user is stored
C24_Witness ==
    \E s \in Writers :
        /\ w[s].pc = "done"
        /\ w[s].req.route = DeleteUser
        /\ w[s].dbUser.role = "admin"
        /\ w[s].req.email = w[s].dbUser.email
        /\ w[s].res.status = 400
        /\ Len(users) = 2

\* C27: from an empty users collection, after any sequence of POST
\* /api/users, PUT /api/users/:email, PATCH /api/users/:email/role, DELETE
\* /api/users/:email requests and setupAdmin runs, every stored user has a
\* role among student, moderator and admin; a PATCH with any other role
\* never reaches updateOne, and once past isAdmin it is answered 400 with
\* the users unchanged.
C27_StoredRolesAreValid ==
    /\ [](\A i \in 1..Len(users) : users[i].role \in validRoles)
    /\ [](\A s \in Writers :
            (w[s].req.route = PatchRole /\ w[s].pc = "store") =>
                w[s].req.body.role \in validRoles)
    /\ [][\A s \in Writers :
            (/\ w[s].req.route = PatchRole
             /\ w[s].req.body.role \notin validRoles
             /\ GateStep(s)
             /\ FindUser(users, w[s].req.header.email).role = "admin") =>
                /\ w'[s].pc = "done"
                /\ w'[s].res = [status |-> 400]
                /\ users' = users]_vars

\* an admin's PATCH with the role root has been answered 400 while an admin
\* and a moderator are stored
C27_Witness ==
    \E s \in Writers :
        /\ w[s].pc = "done"
        /\ w[s].req.route = PatchRole
        /\ w[s].req.body.role = "root"
        /\ w[s].dbUser.role = "admin"
        /\ w[s].res.status = 400
        /\ \E i, j \in 1..Len(users) :
              users[i].role = "admin" /\ users[j].role = "moderator"

\* C28: the store step of a POST /api/users request leaves the role of
\* every stored user as it was and adds at most one user, with the role
\* student; the user in its response carries the role of the stored record
\* with the request's email.
C28_RegistrationKeepsRoles ==
    [][\A s \in Writers :
          (/\ w[s].req.route = PostUser
           /\ StoreStep(s)
           /\ w'[s].res.status # 500) =>
              /\ Len(users') \in {Len(users), Len(users) + 1}
              /\ \A i \in 1..Len(users) :
                    /\ users'[i].email = users[i].email
                    /\ users'[i].role = users[i].role
              /\ Len(users') = Len(users) + 1 =>
                    users'[Len(users')].role = "student"
              /\ w'[s].res.user.role
                    = FindUser(users', w[s].req.body.email).role]_vars

(***************************************************************************)
(* Properties of the connection.                                           *)
(***************************************************************************)
\* C25: whenever isConnected is true, and whenever the handler of a data
\* route runs, the collection handles are assigned, whether or not
\* client.connect() failed and also for a request that arrived while the
\* start-up call of connectToDatabase was in progress.
C25_HandlesAssignedWhenConnected ==
    /\ isConnected => handles
    /\ \A r \in Requesters : cpc[r] = "handler" => handles

(***************************************************************************)
(* Properties of the list route under concurrent writes.                   *)
(***************************************************************************)
\* C26: in every paginated response the number of items is
\* min(limit, max(0, total - (page-1)*limit)) for the total of the same
\* response, also when a create or delete of a scholarship takes effect
\* between the request's page query and its count query.
C26_ItemCountFitsTotal ==
    Paginated =>
        LET p == res.pagination
            rest == p.total - (p.page - 1) * p.limit
            left == IF rest > 0 THEN rest ELSE 0
        IN  Len(res.scholarships) = IF p.limit < left THEN p.limit ELSE left

====
